---- MODULE Spec2Model ----
(***************************************************************************)
(* A model of yddobyb/stock_advisor:                                       *)
(*   data/fetch_overseas_data.py   the paged minute-bar assembler          *)
(*   strategy/overseas_strategy.py indicators, signals, position sizing    *)
(*   main_overseas.py              the pipeline that wires them            *)
(***************************************************************************)
EXTENDS Integers, Sequences, FiniteSets, TLC

\* ------------------------------------------------------------------ bounds
\* Largest page budget (the `period` argument) a run is started with.
MaxPeriod == 3
\* Bars the upstream holds for one run: once that many were served, a call
\* can only fail or come back without bars.
MaxRows == 4

\* --------------------------------------------------------------- constants
\* "NREC": "120", the records asked for per call.
NREC == 120

\* ------------------------------------------------------------- input sets
\* Date strings (YYYYMMDD) and time strings (HHMMSS) the upstream sends,
\* as the numbers their digits spell.
Dates == {20231231, 20240101}
Times == {0, 500}
\* nmin, the bar interval in minutes, as typed by the user.
NMins == {1, 5}
\* output1.next, the paging token of a response.
Nexts == {"", "1"}

NoKeyb == <<>>

Min(a, b) == IF a <= b THEN a ELSE b
Max(a, b) == IF a >= b THEN a ELSE b

\* ------------------------------------------------- timestamps (strptime)
\* The calendar around the dates used: the day number of a YYYYMMDD string.
DayOrd(ymd) ==
    CASE ymd = 20231229 -> 0
      [] ymd = 20231230 -> 1
      [] ymd = 20231231 -> 2
      [] ymd = 20240101 -> 3
      [] ymd = 20240102 -> 4

OrdDay(n) ==
    CASE n = 0 -> 20231229
      [] n = 1 -> 20231230
      [] n = 2 -> 20231231
      [] n = 3 -> 20240101
      [] n = 4 -> 20240102

\* datetime.strptime(ymd + hms, "%Y%m%d%H%M%S"), in seconds.
Strptime(ymd, hms) ==
    DayOrd(ymd) * 86400 + (hms \div 10000) * 3600
        + ((hms \div 100) % 100) * 60 + (hms % 100)

\* t.strftime("%Y%m%d%H%M%S"), as <<YYYYMMDD, HHMMSS>>.
Strftime(t) ==
    << OrdDay(t \div 86400),
       ((t % 86400) \div 3600) * 10000 + ((t % 3600) \div 60) * 100 + (t % 60) >>

\* get_next_keyb: the LAST record of the page, its xymd and xhms, nmin
\* minutes earlier.
get_next_keyb(output2, nmin_) ==
    LET last_record == output2[Len(output2)]
        last_time == Strptime(last_record.xymd, last_record.xhms)
    IN  Strftime(last_time - nmin_ * 60)

\* ------------------------------------------------------------ data frames
\* A frame of bars is a sequence of rows [datetime, last].
\* r put into the sorted frame s at every place that keeps it sorted.
insert_sorted(s, r) ==
    {SubSeq(s, 1, j) \o <<r>> \o SubSeq(s, j + 1, Len(s)) :
        j \in {m \in 0..Len(s) :
                 /\ (m = 0 \/ s[m].datetime <= r.datetime)
                 /\ (m = Len(s) \/ r.datetime <= s[m + 1].datetime)}}

RECURSIVE sorted_orders(_, _)
\* Every ordering of the first k rows of df that is sorted by datetime.
sorted_orders(df, k) ==
    IF k = 0 THEN {<<>>}
    ELSE UNION {insert_sorted(s, df[k]) : s \in sorted_orders(df, k - 1)}

\* df.sort_values(by='datetime').reset_index(drop=True): the default sort is
\* not stable, so rows with equal datetime may come out in any order.
sort_values(df) == sorted_orders(df, Len(df))

\* Each row of df tagged with whether it is the first of its datetime.
mark_first(df) ==
    [k \in 1..Len(df) |->
        [row |-> df[k],
         first |-> \A j \in 1..(k - 1) : df[j].datetime # df[k].datetime]]

IsFirst(e) == e.first

drop_all_but_first(df) ==
    LET kept == SelectSeq(mark_first(df), IsFirst)
    IN  [k \in 1..Len(kept) |-> kept[k].row]

\* The same call dropping nothing.
drop_nothing(df) == df

\* df.drop_duplicates(subset='datetime', inplace=True): the first row of
\* each datetime is kept.
drop_duplicates(df) == drop_all_but_first(df)

\* pd.concat([all_data, df], ignore_index=True)
concat(a, b) == a \o b

\* The rows convert_to_dataframe builds from output2, before the sort:
\* datetime from tymd + xhms.
to_rows(output2) ==
    [k \in 1..Len(output2) |->
        [datetime |-> Strptime(output2[k].tymd, output2[k].xhms),
         last |-> output2[k].last]]

\* convert_to_dataframe: the frames it may return for an output2 that holds
\* records (for an empty one the column selection raises KeyError).
convert_to_dataframe(data) ==
    IF "output2" \in DOMAIN data
    THEN sort_values(to_rows(data.output2))
    ELSE {<<>>}

\* --------------------------------------------------------------- upstream
\* A page of n records priced p. xymd is read only from the last record
\* (get_next_keyb), so only there does it vary independently of tymd. The
\* bars of the k-th call carry last = k: two pages that overlap on a
\* timestamp differ in the fields they give it.
Pages(n, p) ==
    {[k \in 1..n |->
        [tymd |-> f[k][1],
         xymd |-> IF k = n THEN x ELSE f[k][1],
         xhms |-> f[k][2],
         last |-> p]] : f \in [1..n -> Dates \X Times], x \in Dates}

\* The bodies a 200 response to call number k may carry once `served` bars
\* were served (call_overseas_minute_api returns response.json()): without
\* output2, with an empty one, or with a page of 1 to NREC records.
Bodies(served, k) ==
    {[output1 |-> [next |-> nx]] : nx \in Nexts}
    \cup {[output1 |-> [next |-> nx], output2 |-> <<>>] : nx \in Nexts}
    \cup UNION {
          {[output1 |-> [next |-> nx], output2 |-> pg] :
               nx \in Nexts, pg \in Pages(n, k)} :
          n \in 1..Min(NREC, MaxRows - served)}

\* ------------------------------------------------------ indicator cells
\* A cell of an indicator column: NaN (undefined) or a number.
NaN == [nan |-> TRUE, v |-> 0]
Num(n) == [nan |-> FALSE, v |-> n]

\* Comparisons as pandas makes them: any comparison with NaN is False.
Gt(a, b) == ~a.nan /\ ~b.nan /\ a.v > b.v
Lt(a, b) == ~a.nan /\ ~b.nan /\ a.v < b.v
Ge(a, b) == ~a.nan /\ ~b.nan /\ a.v >= b.v

\* The RSI threshold of both rules.
RsiLimit == 70
\* rsi(df["close"], 14), momentum(df["close"], 10), atr(df, 14)
RsiPeriod == 14
MomPeriod == 10
AtrPeriod == 14
\* capital = 10_000_000 of main's sizing example
MainCapital == 10000000

\* --------------------------------------------------------------- signals
cond_buy(r) ==
    /\ Gt(r.EMA10, r.EMA20)
    /\ Lt(r.RSI14, Num(RsiLimit))
    /\ Gt(r.MACD, r.MACD_SIGNAL)
    /\ Gt(r.MOM10, Num(0))

\* The SELL rule with the RSI bound included.
cond_sell_ge(r) ==
    \/ Lt(r.EMA10, r.EMA20)
    \/ Ge(r.RSI14, Num(RsiLimit))
    \/ Lt(r.MACD, r.MACD_SIGNAL)
    \/ Lt(r.MOM10, Num(0))

cond_sell(r) ==
    \/ Lt(r.EMA10, r.EMA20)
    \/ Gt(r.RSI14, Num(RsiLimit))
    \/ Lt(r.MACD, r.MACD_SIGNAL)
    \/ Lt(r.MOM10, Num(0))

\* The three assignments of generate_signals, in their order, for one row.
signal_of(r) ==
    LET s0 == "HOLD"
        s1 == IF cond_buy(r) THEN "BUY" ELSE s0
        s2 == IF cond_sell(r) THEN "SELL" ELSE s1
    IN  s2

\* generate_signals: a copy of the frame with the signal column added.
generate_signals(df) ==
    [k \in 1..Len(df) |-> ("signal" :> signal_of(df[k])) @@ df[k]]

get_latest_signal(df) ==
    IF Len(df) = 0 THEN "NO_DATA" ELSE df[Len(df)].signal

\* ------------------------------------------------------- position sizing
\* position_sizing(capital, current_price, atr_value, risk_per_trade) with
\* risk_per_trade = pct/100. The floor division by loss_per_share = 0 raises
\* ZeroDivisionError.
position_sizing(capital, current_price, atr_value, pct) ==
    LET stop_loss == current_price - 2 * atr_value
        loss_per_share == current_price - stop_loss
    IN  IF stop_loss <= 0 THEN [raised |-> FALSE, qty |-> 1]
        ELSE IF loss_per_share = 0 THEN [raised |-> TRUE, qty |-> 0]
        ELSE [raised |-> FALSE,
              qty |-> Max((capital * pct) \div (100 * loss_per_share), 1)]

\* ------------------------------------------------------------------ state
VARIABLES
    pc,          \* where main (and fetch_and_save_data inside it) stands
    period,      \* the page budget typed by the user
    nmin,        \* the bar interval typed by the user
    calls,       \* calls of call_overseas_minute_api made so far
    fail_call,   \* the number of the call that returned None (0: none did)
    all_data,    \* fetch_and_save_data's accumulator
    df_page,     \* df_first / df_next: the frame of the latest page
    keyb,        \* the keyb the next call is made with
    next_value,  \* the next_value the next call is made with
    i,           \* the loop variable of range(period - 1)
    series,      \* main's df: what fetch_and_save_data returned
    fetched,     \* every bar a successful call delivered (history)
    outcome,     \* how main ended
    ran,         \* the strategy functions main has called
    df_signal,   \* the last row of main's df_signal (the only one main reads)
    latest_sig,  \* main's latest_sig
    qty,         \* main's qty
    sig_df,      \* generate_signals: the frame it is given
    sig_out,     \* generate_signals: the frame it returns
    sig_latest,  \* get_latest_signal's result on sig_out
    sig_pc,
    ps_args,     \* position_sizing: capital, current_price, atr_value, pct
    ps_out,      \* position_sizing: what it did
    ps_pc,
    lib_df,      \* the caller's frame handed to an indicator function
    lib_df0,     \* that frame as it was before the call
    lib_ret,     \* what the indicator function returned
    lib_fn       \* the indicator function called last

main_vars == <<pc, period, nmin, calls, fail_call, all_data, df_page, keyb,
               next_value, i, series, fetched, outcome, ran, df_signal,
               latest_sig, qty>>
sig_vars == <<sig_df, sig_out, sig_latest, sig_pc>>
ps_vars == <<ps_args, ps_out, ps_pc>>
lib_vars == <<lib_df, lib_df0, lib_ret, lib_fn>>
vars == <<main_vars, sig_vars, ps_vars, lib_vars>>

\* The parts of the state a specification does not exercise.
MainIdle ==
    /\ pc = "idle" /\ period = 0 /\ nmin = 0 /\ calls = 0 /\ fail_call = 0
    /\ all_data = <<>> /\ df_page = <<>> /\ keyb = NoKeyb /\ next_value = ""
    /\ i = 0 /\ series = <<>> /\ fetched = {} /\ outcome = "running"
    /\ ran = {} /\ df_signal = <<>> /\ latest_sig = "" /\ qty = 0
SigIdle == sig_df = <<>> /\ sig_out = <<>> /\ sig_latest = "" /\ sig_pc = "idle"
PsIdle == ps_args = <<0, 0, 0, 0>> /\ ps_out = [raised |-> FALSE, qty |-> 0] /\ ps_pc = "idle"
LibIdle ==
    /\ lib_df = [rows |-> 0, col |-> <<>>]
    /\ lib_df0 = [rows |-> 0, col |-> <<>>]
    /\ lib_ret = [len |-> 0, cols |-> {}]
    /\ lib_fn = ""

\* The locals of fetch_and_save_data outside a call of it.
Locals ==
    all_data = <<>> /\ df_page = <<>> /\ keyb = NoKeyb /\ next_value = "" /\ i = 0

\* main touches nothing of the states of the library calls below.
OthersUnchanged == UNCHANGED <<sig_vars, ps_vars, lib_vars>>

\* ------------------------------------------------------------- main: start
Init ==
    /\ pc = "token" /\ period = 0 /\ nmin = 0 /\ calls = 0 /\ fail_call = 0
    /\ Locals
    /\ series = <<>> /\ fetched = {} /\ outcome = "running"
    /\ ran = {} /\ df_signal = <<>> /\ latest_sig = "" /\ qty = 0
    /\ SigIdle /\ PsIdle /\ LibIdle

\* get_access_token returned a token.
GetTokenOk ==
    /\ OthersUnchanged
    /\ pc = "token"
    /\ pc' = "input"
    /\ UNCHANGED <<period, nmin, calls, fail_call, all_data, df_page, keyb,
                   next_value, i, series, fetched, outcome, ran, df_signal,
                   latest_sig, qty>>

\* get_access_token returned (None, None): sys.exit(1).
GetTokenFailed ==
    /\ OthersUnchanged
    /\ pc = "token"
    /\ pc' = "done" /\ outcome' = "exit1"
    /\ UNCHANGED <<period, nmin, calls, fail_call, all_data, df_page, keyb,
                   next_value, i, series, fetched, ran, df_signal,
                   latest_sig, qty>>

\* The prompts for nmin and period.
ReadInput ==
    /\ OthersUnchanged
    /\ pc = "input"
    /\ \E n \in NMins, p \in 0..MaxPeriod : nmin' = n /\ period' = p
    /\ pc' = "first_call"
    /\ UNCHANGED <<calls, fail_call, all_data, df_page, keyb, next_value, i,
                   series, fetched, outcome, ran, df_signal, latest_sig, qty>>

\* ---------------------------------------------------- fetch_and_save_data
\* The first call returned None: return pd.DataFrame().
FirstCallFailed ==
    /\ OthersUnchanged
    /\ pc = "first_call"
    /\ calls' = calls + 1 /\ fail_call' = calls + 1
    /\ series' = <<>>
    /\ pc' = "check_empty"
    /\ UNCHANGED <<period, nmin, all_data, df_page, keyb, next_value, i,
                   fetched, outcome, ran, df_signal, latest_sig, qty>>

\* What one successful call adds: the frame of the page, the cursor of the
\* next call.
TakePage(data) ==
    /\ \E dfp \in convert_to_dataframe(data) :
          /\ df_page' = dfp
          /\ all_data' = concat(all_data, dfp)
    /\ next_value' = data.output1.next
    /\ keyb' = get_next_keyb(data.output2, nmin)
    /\ fetched' = fetched \cup {to_rows(data.output2)[k] : k \in 1..Len(data.output2)}

\* A response without bars: convert_to_dataframe raises KeyError on an empty
\* output2, get_next_keyb raises KeyError on a missing one.
NoBars(data) == IF "output2" \in DOMAIN data THEN Len(data.output2) = 0 ELSE TRUE

FirstCallRaises ==
    /\ OthersUnchanged
    /\ pc = "first_call"
    /\ \E data \in Bodies(Len(all_data), calls + 1) : NoBars(data)
    /\ calls' = calls + 1
    /\ pc' = "done" /\ outcome' = "raised"
    /\ UNCHANGED <<period, nmin, fail_call, all_data, df_page, keyb,
                   next_value, i, series, fetched, ran, df_signal,
                   latest_sig, qty>>

FirstCallPage ==
    /\ OthersUnchanged
    /\ pc = "first_call"
    /\ \E data \in Bodies(Len(all_data), calls + 1) : ~NoBars(data) /\ TakePage(data)
    /\ calls' = calls + 1
    /\ i' = 0
    /\ pc' = "loop"
    /\ UNCHANGED <<period, nmin, fail_call, series, outcome, ran, df_signal,
                   latest_sig, qty>>

\* for i in range(period - 1): a further iteration is due.
in_range(k, n) == k < n - 1

\* The pc after a failed call with the loop carrying on instead of breaking.
after_failed_call_continue == "loop"

\* if not next_call: break
after_failed_call == "finish"

\* The call of an iteration returned None; the iteration is used up.
NextCallFailed ==
    /\ OthersUnchanged
    /\ pc = "loop" /\ in_range(i, period)
    /\ calls' = calls + 1 /\ fail_call' = calls + 1
    /\ i' = i + 1
    /\ pc' = after_failed_call
    /\ UNCHANGED <<period, nmin, all_data, df_page, keyb, next_value, series,
                   fetched, outcome, ran, df_signal, latest_sig, qty>>

NextCallRaises ==
    /\ OthersUnchanged
    /\ pc = "loop" /\ in_range(i, period)
    /\ \E data \in Bodies(Len(all_data), calls + 1) : NoBars(data)
    /\ calls' = calls + 1
    /\ pc' = "done" /\ outcome' = "raised"
    /\ UNCHANGED <<period, nmin, fail_call, all_data, df_page, keyb,
                   next_value, i, series, fetched, ran, df_signal,
                   latest_sig, qty>>

NextCallPage ==
    /\ OthersUnchanged
    /\ pc = "loop" /\ in_range(i, period)
    /\ \E data \in Bodies(Len(all_data), calls + 1) : ~NoBars(data) /\ TakePage(data)
    /\ calls' = calls + 1
    /\ i' = i + 1
    /\ UNCHANGED <<pc, period, nmin, fail_call, series, outcome, ran,
                   df_signal, latest_sig, qty>>

\* range(period - 1) is used up.
LoopDone ==
    /\ OthersUnchanged
    /\ pc = "loop" /\ ~in_range(i, period)
    /\ pc' = "finish"
    /\ UNCHANGED <<period, nmin, calls, fail_call, all_data, df_page, keyb,
                   next_value, i, series, fetched, outcome, ran, df_signal,
                   latest_sig, qty>>

\* The sort, the drop of duplicates and the return (the CSV is written on
\* the way).
Finish ==
    /\ OthersUnchanged
    /\ pc = "finish"
    /\ \E s \in sort_values(all_data) : series' = drop_duplicates(s)
    /\ pc' = "check_empty"
    /\ all_data' = <<>> /\ df_page' = <<>> /\ keyb' = NoKeyb
    /\ next_value' = "" /\ i' = 0
    /\ UNCHANGED <<period, nmin, calls, fail_call, fetched, outcome, ran,
                   df_signal, latest_sig, qty>>

\* ------------------------------------------------------------- main: rest
\* The early return that is never taken.
never_empty(d) == FALSE

\* df.empty
is_empty(d) == Len(d) = 0

\* if df.empty: print, return
CheckEmpty ==
    /\ OthersUnchanged
    /\ pc = "check_empty"
    /\ IF is_empty(series)
       THEN pc' = "done" /\ outcome' = "no_data"
       ELSE pc' = "indicators" /\ UNCHANGED outcome
    /\ UNCHANGED <<period, nmin, calls, fail_call, all_data, df_page, keyb,
                   next_value, i, series, fetched, ran, df_signal,
                   latest_sig, qty>>

CalcIndicators ==
    /\ OthersUnchanged
    /\ pc = "indicators"
    /\ ran' = ran \cup {"calculate_advanced_indicators"}
    /\ pc' = "trailing"
    /\ UNCHANGED <<period, nmin, calls, fail_call, all_data, df_page, keyb,
                   next_value, i, series, fetched, outcome, df_signal,
                   latest_sig, qty>>

ApplyTrailingStop ==
    /\ OthersUnchanged
    /\ pc = "trailing"
    /\ ran' = ran \cup {"apply_trailing_stop"}
    /\ pc' = "signals"
    /\ UNCHANGED <<period, nmin, calls, fail_call, all_data, df_page, keyb,
                   next_value, i, series, fetched, outcome, df_signal,
                   latest_sig, qty>>

\* The indicator cells row t (from 0) of the frame may hold. Which cells are
\* defined follows the windows: rolling(14) leaves rows 0..12 of RSI14 and
\* ATR14 undefined, shift(10) rows 0..9 of MOM10; the EMAs are seeded by
\* the first close, so row 0 has EMA10 = EMA20 and MACD = MACD_SIGNAL = 0.
\* The values of the later rows are a choice.
IndicatorRows(t, close) ==
    {[close |-> close, EMA10 |-> Num(e10), EMA20 |-> Num(e20), RSI14 |-> rsi14,
      MACD |-> Num(m), MACD_SIGNAL |-> Num(ms), MOM10 |-> mom, ATR14 |-> atr14] :
        e10 \in (IF t = 0 THEN {close} ELSE {1, 2}),
        e20 \in (IF t = 0 THEN {close} ELSE {1, 2}),
        m \in (IF t = 0 THEN {0} ELSE {0, 1}),
        ms \in (IF t = 0 THEN {0} ELSE {0, 1}),
        rsi14 \in (IF t >= RsiPeriod - 1 THEN {NaN, Num(50), Num(100)} ELSE {NaN}),
        mom \in (IF t >= MomPeriod THEN {NaN, Num(-1), Num(1)} ELSE {NaN}),
        atr14 \in (IF t >= AtrPeriod - 1 THEN {Num(0), Num(1)} ELSE {NaN})}

GenerateSignals ==
    /\ OthersUnchanged
    /\ pc = "signals"
    /\ IF Len(series) = 0
       THEN df_signal' = generate_signals(<<>>)
       ELSE \E r \in IndicatorRows(Len(series) - 1, series[Len(series)].last) :
                df_signal' = generate_signals(<<r>>)
    /\ ran' = ran \cup {"generate_signals"}
    /\ pc' = "latest"
    /\ UNCHANGED <<period, nmin, calls, fail_call, all_data, df_page, keyb,
                   next_value, i, series, fetched, outcome, latest_sig, qty>>

\* latest_sig = get_latest_signal(df_signal); df_signal.iloc[-1] (IndexError
\* on an empty frame); position_sizing when the signal is BUY.
LatestSignal ==
    /\ OthersUnchanged
    /\ pc = "latest"
    /\ latest_sig' = get_latest_signal(df_signal)
    /\ IF Len(df_signal) = 0
       THEN pc' = "done" /\ outcome' = "raised" /\ UNCHANGED <<ran, qty>>
       ELSE IF latest_sig' = "BUY"
       THEN LET row == df_signal[Len(df_signal)]
                r == position_sizing(MainCapital, row.close, row.ATR14.v, 1)
            IN  /\ ran' = ran \cup {"position_sizing"}
                /\ qty' = r.qty
                /\ IF r.raised \/ row.ATR14.nan
                   THEN pc' = "done" /\ outcome' = "raised"
                   ELSE pc' = "save" /\ UNCHANGED outcome
       ELSE pc' = "save" /\ UNCHANGED <<outcome, ran, qty>>
    /\ UNCHANGED <<period, nmin, calls, fail_call, all_data, df_page, keyb,
                   next_value, i, series, fetched, df_signal>>

\* df_signal.to_csv
Save ==
    /\ OthersUnchanged
    /\ pc = "save"
    /\ pc' = "done" /\ outcome' = "saved"
    /\ UNCHANGED <<period, nmin, calls, fail_call, all_data, df_page, keyb,
                   next_value, i, series, fetched, ran, df_signal,
                   latest_sig, qty>>

Next ==
    \/ GetTokenOk \/ GetTokenFailed \/ ReadInput
    \/ FirstCallFailed \/ FirstCallRaises \/ FirstCallPage
    \/ NextCallFailed \/ NextCallRaises \/ NextCallPage \/ LoopDone
    \/ Finish
    \/ CheckEmpty \/ CalcIndicators \/ ApplyTrailingStop \/ GenerateSignals
    \/ LatestSignal \/ Save

Spec == Init /\ [][Next]_vars

\* ----------------------------------------- generate_signals on any frame
\* Rows a frame handed to generate_signals may hold.
MaxSigRows == 1

SigCells(vals) == {NaN} \cup {Num(n) : n \in vals}

SigRows ==
    [EMA10 : SigCells({1, 2, 3}), EMA20 : SigCells({2}),
     RSI14 : SigCells({RsiLimit - 1, RsiLimit, RsiLimit + 1}),
     MACD : SigCells({-1, 0, 1}), MACD_SIGNAL : SigCells({0}),
     MOM10 : SigCells({-1, 0, 1})]

SigInit ==
    /\ MainIdle /\ PsIdle /\ LibIdle
    /\ sig_df = <<>> /\ sig_out = <<>> /\ sig_latest = "" /\ sig_pc = "build"

\* The caller builds the frame, a row at a time.
SigAppendRow ==
    /\ sig_pc = "build" /\ Len(sig_df) < MaxSigRows
    /\ \E r \in SigRows : sig_df' = Append(sig_df, r)
    /\ UNCHANGED <<sig_out, sig_latest, sig_pc, main_vars, ps_vars, lib_vars>>

SigGenerate ==
    /\ sig_pc = "build"
    /\ sig_out' = generate_signals(sig_df)
    /\ sig_pc' = "signalled"
    /\ UNCHANGED <<sig_df, sig_latest, main_vars, ps_vars, lib_vars>>

SigLatest ==
    /\ sig_pc = "signalled"
    /\ sig_latest' = get_latest_signal(sig_out)
    /\ sig_pc' = "done"
    /\ UNCHANGED <<sig_df, sig_out, main_vars, ps_vars, lib_vars>>

SigNext == SigAppendRow \/ SigGenerate \/ SigLatest

SpecSignals == SigInit /\ [][SigNext]_vars

\* ------------------------------------------- position_sizing on any input
Capitals == {0, 1000, MainCapital}
SizingPrices == {1, 10, 250}
Atrs == {0, 1, 5, 125, 200}
RiskPcts == {0, 1, 2, 50}

PsInit ==
    /\ MainIdle /\ SigIdle /\ LibIdle
    /\ ps_args \in Capitals \X SizingPrices \X Atrs \X RiskPcts
    /\ ps_out = [raised |-> FALSE, qty |-> 0]
    /\ ps_pc = "call"

PsCall ==
    /\ ps_pc = "call"
    /\ ps_out' = position_sizing(ps_args[1], ps_args[2], ps_args[3], ps_args[4])
    /\ ps_pc' = "called"
    /\ UNCHANGED <<ps_args, main_vars, sig_vars, lib_vars>>

PsNext == PsCall

SpecSizing == PsInit /\ [][PsNext]_vars

\* -------------------------------------- the indicator functions on a frame
\* A frame here is [rows, col]: col maps a column name to its cells.
\* Rows of a frame handed to an indicator function.
MaxLibRows == 2
\* The period a caller gives atr; 14 is its default.
AtrPeriods == {1, 2, AtrPeriod}
LibValues == {1, 2}

AbsDiff(a, b) == IF a.nan \/ b.nan THEN NaN ELSE Num(IF a.v >= b.v THEN a.v - b.v ELSE b.v - a.v)
Sub(a, b) == IF a.nan \/ b.nan THEN NaN ELSE Num(a.v - b.v)
\* max of two cells as DataFrame.max(axis=1) takes it: NaN is skipped.
MaxSkipNa(a, b) == IF a.nan THEN b ELSE IF b.nan THEN a ELSE Num(Max(a.v, b.v))

RECURSIVE WindowSum(_, _, _)
\* The sum of the w cells of c that end at row k.
WindowSum(c, k, w) == IF w = 0 THEN 0 ELSE c[k].v + WindowSum(c, k - 1, w - 1)

\* c.rolling(window=w).mean(): undefined until w defined cells are in the
\* window; a defined cell holds the mean as sum / over.
rolling_mean(c, w) ==
    [k \in 1..Len(c) |->
        IF k >= w /\ \A j \in (k - w + 1)..k : ~c[j].nan
        THEN [nan |-> FALSE, v |-> WindowSum(c, k, w), over |-> w]
        ELSE [nan |-> TRUE, v |-> 0, over |-> w]]

\* The frame atr leaves behind: six columns assigned on the frame it was
\* given.
atr_frame(df, w) ==
    LET n == df.rows
        prev_close == [k \in 1..n |-> IF k = 1 THEN NaN ELSE df.col["close"][k - 1]]
        h_l == [k \in 1..n |-> Sub(df.col["high"][k], df.col["low"][k])]
        h_pc == [k \in 1..n |-> AbsDiff(df.col["high"][k], prev_close[k])]
        l_pc == [k \in 1..n |-> AbsDiff(df.col["low"][k], prev_close[k])]
        TR == [k \in 1..n |-> MaxSkipNa(MaxSkipNa(h_l[k], h_pc[k]), l_pc[k])]
    IN  [rows |-> n,
         col |-> ("prev_close" :> prev_close) @@ ("h_l" :> h_l) @@ ("h_pc" :> h_pc)
                 @@ ("l_pc" :> l_pc) @@ ("TR" :> TR)
                 @@ ("ATR" :> rolling_mean(TR, w)) @@ df.col]

\* The columns calculate_advanced_indicators adds.
IndicatorColumns ==
    {"EMA10", "EMA20", "EMA50", "RSI14", "MOM10", "BB_MID", "BB_UPPER",
     "BB_LOWER", "MACD", "MACD_SIGNAL", "MACD_HIST", "ATR14"}
\* The columns of atr it drops again.
TempColumns == {"prev_close", "h_l", "h_pc", "l_pc", "TR"}

\* The columns of the frame calculate_advanced_indicators returns: those of
\* the copy (last renamed to close), the indicators, and what atr assigned
\* on the copy less the temporary ones.
calculate_columns(df) ==
    LET cols == DOMAIN df.col
        renamed == IF "last" \in cols /\ "close" \notin cols
                   THEN (cols \ {"last"}) \cup {"close"} ELSE cols
    IN  ((renamed \cup IndicatorColumns
            \cup {"prev_close", "h_l", "h_pc", "l_pc", "TR", "ATR"}) \ TempColumns)

LibFrames ==
    UNION {
        {[rows |-> n,
          col |-> ("high" :> [k \in 1..n |-> Num(h[k])])
                  @@ ("low" :> [k \in 1..n |-> Num(l[k])])
                  @@ (cn :> [k \in 1..n |-> Num(c[k])])] :
            h \in [1..n -> LibValues], l \in [1..n -> LibValues],
            c \in [1..n -> LibValues], cn \in {"close", "last"}} :
        n \in 1..MaxLibRows}

LibInit ==
    /\ MainIdle /\ SigIdle /\ PsIdle
    /\ lib_df \in LibFrames
    /\ lib_df0 = lib_df
    /\ lib_ret = [len |-> 0, cols |-> {}]
    /\ lib_fn = ""

\* A function that takes df["close"] and returns new columns of its length.
LibPure(fn, cols) ==
    /\ "close" \in DOMAIN lib_df.col
    /\ lib_fn' = fn
    /\ lib_df0' = lib_df
    /\ lib_ret' = [len |-> Len(lib_df.col["close"]), cols |-> cols]
    /\ UNCHANGED <<lib_df, main_vars, sig_vars, ps_vars>>

LibEma == LibPure("ema", {"ema"})
LibRsi == LibPure("rsi", {"rsi"})
LibMomentum == LibPure("momentum", {"momentum"})
LibBollinger == LibPure("bollinger_bands", {"sma", "upper", "lower"})
LibMacd == LibPure("macd", {"macd_line", "signal_line", "hist"})

LibAtr ==
    /\ "close" \in DOMAIN lib_df.col
    /\ \E w \in AtrPeriods :
          /\ lib_df' = atr_frame(lib_df, w)
          /\ lib_ret' = [len |-> Len(lib_df'.col["ATR"]), cols |-> {"ATR"}]
    /\ lib_fn' = "atr"
    /\ lib_df0' = lib_df
    /\ UNCHANGED <<main_vars, sig_vars, ps_vars>>

\* calculate_advanced_indicators works on df.copy().
LibCalculate ==
    /\ lib_fn' = "calculate_advanced_indicators"
    /\ lib_df0' = lib_df
    /\ lib_ret' = [len |-> lib_df.rows, cols |-> calculate_columns(lib_df)]
    /\ UNCHANGED <<lib_df, main_vars, sig_vars, ps_vars>>

LibNext ==
    \/ LibEma \/ LibRsi \/ LibMomentum \/ LibBollinger \/ LibMacd
    \/ LibAtr \/ LibCalculate

SpecLib == LibInit /\ [][LibNext]_vars

\* ================================================================ claims
\* fetch_and_save_data has returned to main.
Returned ==
    \/ pc \in {"check_empty", "indicators", "trailing", "signals", "latest", "save"}
    \/ (pc = "done" /\ outcome \in {"no_data", "saved"})

StrictlyIncreasing(s) ==
    \A k \in 1..(Len(s) - 1) : s[k].datetime < s[k + 1].datetime

Datetimes(bars) == {b.datetime : b \in bars}
RowSet(s) == {s[k] : k \in 1..Len(s)}

\* C1: whatever pages were fetched (any number, any order inside a page,
\* overlapping pages, a loop cut short by a failed call), the Series that
\* fetch_and_save_data returns has strictly increasing timestamps, so a
\* timestamp two pages share is in exactly one row.
C1_SeriesStrictlyIncreasing == Returned => StrictlyIncreasing(series)

\* C1's case: a returned Series of several rows whose pages overlapped on a
\* timestamp with differing fields.
C1_OverlapAssembled ==
    /\ Returned /\ Len(series) >= 2 /\ calls >= 2
    /\ \E a, b \in fetched : a.datetime = b.datetime /\ a.last # b.last

\* C2 (as claimed): a run makes at most `period` calls, the first included,
\* for every period >= 0; with no failed call it makes exactly `period`.
C2_CallsWithinBudget ==
    /\ calls <= period
    /\ (Returned /\ fail_call = 0) => calls = period

\* What the code does about C2: the first call is made whatever period is.
C2_CallsWithinBudgetFromOne ==
    /\ calls <= Max(period, 1)
    /\ (Returned /\ fail_call = 0) => calls = Max(period, 1)

\* C3: after a call failed no further call is made, and the Series returned
\* is the sorted, deduplicated union of the bars fetched before it: every
\* fetched timestamp is there once, every row is a fetched bar, and the
\* Series is empty when the first call failed.
C3_PartialResultAfterFailure ==
    fail_call > 0 =>
        /\ calls = fail_call
        /\ pc \notin {"first_call", "loop"}
        /\ Returned =>
              /\ StrictlyIncreasing(series)
              /\ RowSet(series) \subseteq fetched
              /\ Datetimes(RowSet(series)) = Datetimes(fetched)
              /\ (fail_call = 1 => series = <<>>)

\* C3's case: two pages were fetched, the third call failed, and the
\* Series came back with rows.
C3_FailedAfterTwoPages ==
    Returned /\ fail_call = 3 /\ Len(series) >= 2

\* C4 (as claimed): whatever the calls return (None, a page of bars, a body
\* whose bar list is empty or missing), the assembler returns a Series and
\* never ends in an exception.
C4_NeverRaises == outcome # "raised"

MinDatetime(df) ==
    CHOOSE m \in Datetimes(RowSet(df)) : \A d \in Datetimes(RowSet(df)) : m <= d

\* C5 (as claimed): the keyb a further call is made with is the minimum
\* stored timestamp of the page before it less nmin minutes, whatever the
\* order of the records in that page.
C5_KeybIsPageMinMinusInterval ==
    (pc = "loop" /\ in_range(i, period)) =>
        keyb = Strftime(MinDatetime(df_page) - nmin * 60)

SignalsMade == sig_pc \in {"signalled", "done"}

AnyUndefined(r) ==
    r.EMA10.nan \/ r.EMA20.nan \/ r.RSI14.nan \/ r.MACD.nan
        \/ r.MACD_SIGNAL.nan \/ r.MOM10.nan

\* C6 (as claimed): a row with an undefined input indicator has signal HOLD.
C6_UndefinedRowsHold ==
    SignalsMade =>
        \A k \in 1..Len(sig_out) :
            AnyUndefined(sig_out[k]) => sig_out[k].signal = "HOLD"

\* What the code does about C6: such a row is never BUY.
C6_UndefinedRowsNeverBuy ==
    SignalsMade =>
        \A k \in 1..Len(sig_out) :
            AnyUndefined(sig_out[k]) => sig_out[k].signal # "BUY"

AllBuy(r) ==
    /\ r.EMA10.v > r.EMA20.v /\ r.RSI14.v < 70
    /\ r.MACD.v > r.MACD_SIGNAL.v /\ r.MOM10.v > 0

AnySell(r) ==
    \/ r.EMA10.v < r.EMA20.v \/ r.RSI14.v > 70
    \/ r.MACD.v < r.MACD_SIGNAL.v \/ r.MOM10.v < 0

\* C7: a row whose indicators are all defined is BUY iff all four BUY
\* conditions hold, else SELL iff any SELL condition holds, else HOLD; a
\* BUY row is never overwritten to SELL, boundary values included.
C7_SignalPrecedence ==
    SignalsMade =>
        \A k \in 1..Len(sig_out) :
            ~AnyUndefined(sig_out[k]) =>
                sig_out[k].signal =
                    (IF AllBuy(sig_out[k]) THEN "BUY"
                     ELSE IF AnySell(sig_out[k]) THEN "SELL" ELSE "HOLD")

\* C7's case: a frame with a fully defined row on which all four BUY
\* conditions hold, signalled BUY.
C7_BuyRowSignalled ==
    /\ SignalsMade
    /\ \E k \in 1..Len(sig_out) :
          ~AnyUndefined(sig_out[k]) /\ AllBuy(sig_out[k]) /\ sig_out[k].signal = "BUY"

\* The quantity the spec gives for capital c, price p, ATR a, risk pct/100
\* (0 where it divides by zero).
SpecQuantity(c, p, a, pct) ==
    IF p - 2 * a <= 0 THEN 1
    ELSE IF a = 0 THEN 0
    ELSE Max(1, (c * pct) \div (100 * (p - (p - 2 * a))))

\* C8 (as claimed): for capital >= 0, price > 0, atr_value >= 0 (0 included)
\* position_sizing never fails and returns an integer >= 1: 1 when
\* price - 2*atr_value <= 0, else max(1, floor(capital*risk / (price - stop_loss))).
C8_QuantityAtLeastOne ==
    ps_pc = "called" =>
        /\ ~ps_out.raised
        /\ ps_out.qty >= 1
        /\ ps_args[3] # 0 =>
              ps_out.qty = SpecQuantity(ps_args[1], ps_args[2], ps_args[3], ps_args[4])

\* What the code does about C8: the claim holds for atr_value > 0.
C8_QuantityAtLeastOneForPositiveAtr ==
    (ps_pc = "called" /\ ps_args[3] > 0) =>
        /\ ~ps_out.raised
        /\ ps_out.qty >= 1
        /\ ps_out.qty = SpecQuantity(ps_args[1], ps_args[2], ps_args[3], ps_args[4])

\* C9: when the Series main gets back is empty, main reports no data and
\* ends without raising, and calls none of calculate_advanced_indicators,
\* apply_trailing_stop, generate_signals, position_sizing; and
\* get_latest_signal of an empty frame is "NO_DATA".
C9_EmptySeriesShortCircuits ==
    /\ (Returned /\ Len(series) = 0) =>
          /\ ran = {}
          /\ pc \in {"check_empty", "done"}
          /\ pc = "done" => outcome = "no_data"
    /\ get_latest_signal(<<>>) = "NO_DATA"

\* C9's case: the first call failed and main has ended reporting no data.
C9_NoDataReported ==
    pc = "done" /\ outcome = "no_data" /\ fail_call = 1 /\ Len(series) = 0

\* C10 (as claimed): an indicator function leaves the frame it is given as
\* it was and returns columns of the frame's length.
C10_InputFrameUnchanged ==
    lib_fn # "" => (lib_df = lib_df0 /\ lib_ret.len = lib_df0.rows)

\* What the code does about C10: every function but atr leaves the frame as
\* it was, and all return the frame's length.
C10_InputFrameUnchangedButAtr ==
    lib_fn # "" =>
        /\ lib_fn # "atr" => lib_df = lib_df0
        /\ lib_ret.len = lib_df0.rows

====
